---- MODULE Spec2Model ----
(***************************************************************************)
(* A model of ryu/services/protocols/vrrp/rpc_manager.py: the RPC front    *)
(* end of the VRRP service.  Peers (one hub thread per accepted            *)
(* connection) put requests on one bounded queue, a single dispatcher      *)
(* thread executes them one at a time against the VRRP instance manager    *)
(* and answers the originating peer, and the application's event handler   *)
(* sends every state change to every peer of the peer list.                *)
(*                                                                         *)
(* Python values are modelled by what the code does with them: a parameter *)
(* list is a sequence, a parameter object is a function from its keys to   *)
(* its values, a value is a token whose Python type is given by IsInt.     *)
(* An exception that is not an RPCError leaves the dispatcher loop: the    *)
(* hub thread ends (pc = "dead").                                          *)
(***************************************************************************)
EXTENDS Naturals, Sequences, FiniteSets, TLC

\* ------------------------------------------------------------ bounds
\* Connections accepted in one run.
MaxPeers == 3
\* Connections accepted in one run of the request path.
MaxClients == 2
\* Requests handed to the command queue by concurrently sending peers.
MaxReq == 2
\* Requests of a client that waits for each response before the next request.
MaxCalls == 3
\* State-change events emitted in one run.
MaxEvents == 2

\* ------------------------------------------------- program constants
\* hub.Queue(128): the capacity of the command queue.
QueueSize == 128

\* The dispatcher threads: __init__ spawns _rpc_request_loop_thread once.
DispatchersTwo == {"d1", "d2"}
Dispatchers == {"d1"}

PeerIds == 1..MaxPeers

\* ------------------------------------------------------------ inputs
\* Values of the vrid key: two integers, and (in VridDicts) a string that is
\* no number.  "None" is Python's None.
IntVrids == {"1", "2"}
IsInt(v) == v \in IntVrids

\* A first positional parameter: a mapping (a parameter object) or a value
\* that is no mapping (a string, a number).
Obj(d) == [kind |-> "map", items |-> d]
Scalar == [kind |-> "scalar", items |-> <<>>]
EmptyDict == <<>>

FullConfig(v, a) == ("ip_address" :> "10.0.0.1") @@ ("ifname" :> "eth0")
                    @@ ("vrid" :> v) @@ ("ip_addr" :> a)
Without(d, k) == [x \in (DOMAIN d) \ {k} |-> d[x]]

ConfigDicts ==
    {FullConfig("1", "10.0.0.100"), FullConfig("2", "167772260")}
    \cup {Without(FullConfig("1", "10.0.0.100"), k) :
             k \in {"ip_address", "ifname", "ip_addr", "vrid"}}
    \cup {FullConfig("1", "not-an-address")}
    \cup {FullConfig("1", "10.0.0.100") @@ ("priority" :> "50")}

VridDicts ==
    {("vrid" :> v) : v \in IntVrids \cup {"abc"}}
    \cup {EmptyDict, ("vrid" :> "1") @@ ("priority" :> "50")}

Req(method, params) == [method |-> method, params |-> params]

\* Every request shape the handlers tell apart.
AllRequests ==
    {Req("vrrp_config", ps) :
        ps \in {<<>>, <<Scalar>>} \cup {<<Obj(d)>> : d \in ConfigDicts}}
    \cup {Req(m, ps) : m \in {"vrrp_config_change", "vrrp_shutdown"},
                       ps \in {<<>>, <<Scalar>>} \cup {<<Obj(d)>> : d \in VridDicts}}
    \cup {Req("vrrp_list", <<>>), Req("vrrp_bogus", <<>>)}

\* The requests of the concurrent runs: one per outcome of the dispatcher
\* (a result after one or two calls of the manager, an RPCError, an unknown
\* method, an exception that is no RPCError).
FewRequests ==
    {Req("vrrp_config", <<Obj(FullConfig("1", "10.0.0.100"))>>),
     Req("vrrp_list", <<>>),
     Req("vrrp_shutdown", <<Obj("vrid" :> "1")>>),
     Req("vrrp_shutdown", <<Obj(EmptyDict)>>),
     Req("vrrp_config_change", <<Obj("vrid" :> "1")>>),
     Req("vrrp_bogus", <<>>)}

\* State-change events of the manager, in the order an instance goes
\* through its states: (vrid, old_state, new_state) of the n-th event.
States == <<"Initialize", "Backup", "Master">>
StateAt(k) == States[((k - 1) % Len(States)) + 1]
EventNo(n) == [vrid |-> "1", old_state |-> StateAt(n), new_state |-> StateAt(n + 1)]

VARIABLES
    peers,        \* self._peers: the list of Peer objects
    pstate,       \* each Peer's connection: none, spawned, serving, closed
    rpc_events,   \* self._rpc_events: the queue of (peer, data)
    nreq,         \* requests put on the queue so far (numbers them)
    disp,         \* each dispatcher thread: pc and the loop's local variables
    instances,    \* the VRRP manager's instance list
    trace,        \* the dispatchers' vrrp_api and send_response calls, in
                  \* order: operation, command number, calling thread
    ev_queue,     \* state-change events emitted and not yet handled
    nev,          \* events emitted so far (numbers them)
    bcast         \* vrrp_state_changed_handler: its last run

vars == <<peers, pstate, rpc_events, nreq, disp, instances, trace,
          ev_queue, nev, bcast>>

rpcVars == <<rpc_events, nreq, disp, instances, trace>>
evVars == <<ev_queue, nev, bcast>>

\* ------------------------------------------------------ Python values
NoneV == [t |-> "None"]
Str(msg) == [t |-> "str", msg |-> msg]
List(elems) == [t |-> "list", elems |-> elems]
Dict(d) == [t |-> "dict", items |-> d]

\* list.append(x)
ListAppendTwice(s, x) == Append(Append(s, x), x)
ListAppend(s, x) == Append(s, x)

\* list.remove(x): removes the first item equal to x.
IndexOf(s, x) == CHOOSE i \in 1..Len(s) : s[i] = x /\ \A j \in 1..(i-1) : s[j] # x
ListRemoveNothing(s, x) == s
ListRemove(s, x) ==
    LET i == IndexOf(s, x)
    IN [j \in 1..(Len(s) - 1) |-> IF j < i THEN s[j] ELSE s[j + 1]]

Range(s) == {s[i] : i \in 1..Len(s)}

\* dict.pop(k) raises KeyError when the key is absent.
PopNeverRaises(d, k) == FALSE
PopRaises(d, k) == k \notin DOMAIN d

\* dict.get(k): None when the key is absent.
DictGet(d, k) == IF k \in DOMAIN d THEN d[k] ELSE "None"

\* _params_to_dict: the items of params whose key is in keys.  It calls
\* params.items(), which a value that is no mapping does not have.
params_to_dict(params, keys) == [k \in (DOMAIN params) \cap keys |-> params[k]]

\* str(netaddr.IPAddress(a)): the dotted form of an address given as a
\* dotted string or as an integer.
IPAddressAsGiven(a) == a
IPAddressStr(a) ==
    CASE a = "167772260" -> "10.0.0.100"
      [] OTHER -> a

\* ------------------------------------------------ the VRRP manager
\* The instance manager behind vrrp_api, by its interface: an ordered list
\* of instances, created or updated by vrrp_config, read by vrrp_list,
\* changed by vrrp_config_change and removed by vrrp_shutdown.
DefaultPriority == "100"
DefaultInterval == "1"
DefaultVersion == "3"

\* VRRPInterfaceNetworkDevice(**if_params) accepts the descriptor.
InterfaceValid(if_params) == if_params["primary_ip_address"] # "not-an-address"

\* VRRPConfig(**config_params) accepts the configuration: it has an integer
\* vrid and its address is an address.
ConfigValid(config_params) ==
    /\ IsInt(DictGet(config_params, "vrid"))
    /\ \A i \in 1..Len(config_params["ip_addresses"]) :
           config_params["ip_addresses"][i] # "not-an-address"

InstanceName(device_name, vrid) == <<"VRRP-Router", device_name, vrid>>

NewInstance(if_params, config_params) ==
    [instance_name |-> InstanceName(if_params["device_name"], config_params["vrid"]),
     vrid |-> config_params["vrid"],
     version |-> DefaultVersion,
     priority |-> IF "priority" \in DOMAIN config_params
                  THEN config_params["priority"] ELSE DefaultPriority,
     advertisement_interval |-> DefaultInterval,
     ip_addresses |-> config_params["ip_addresses"]]

\* vrrp_api.vrrp_config: the instance of that name is replaced where it
\* is, a new one is appended.  The reply carries the instance's config.
api_vrrp_config(insts, if_params, config_params) ==
    LET new == NewInstance(if_params, config_params)
        old == {i \in 1..Len(insts) : insts[i].instance_name = new.instance_name}
    IN [instances |-> IF old = {} THEN Append(insts, new)
                      ELSE [i \in 1..Len(insts) |->
                               IF i \in old THEN new ELSE insts[i]],
        config |-> new]

\* vrrp_api.vrrp_shutdown(instance_name)
api_vrrp_shutdown(insts, name) ==
    SelectSeq(insts, LAMBDA i : i.instance_name # name)

\* vrrp_api.vrrp_config_change(instance_name, priority, advertisement_interval):
\* a value that is None leaves the instance's own.
api_vrrp_config_change(insts, name, priority, interval) ==
    [i \in 1..Len(insts) |->
        IF insts[i].instance_name # name THEN insts[i]
        ELSE [insts[i] EXCEPT
                 !.priority = IF priority = "None" THEN @ ELSE priority,
                 !.advertisement_interval = IF interval = "None" THEN @ ELSE interval]]

\* ---------------------------------------------------------- handlers
\* What a handler does: it returns (exc = "none"), raises RPCError, or
\* raises another exception (exc = "other"); calls are the vrrp_api calls
\* it made and instances the manager's list after them.
Returns(result, insts, calls) ==
    [exc |-> "none", error |-> NoneV, result |-> result,
     instances |-> insts, calls |-> calls, instance_name |-> "None"]
RaisesRPCError(text, arg, insts, calls) ==
    [exc |-> "RPCError", error |-> Str([text |-> text, arg |-> arg]),
     result |-> NoneV, instances |-> insts, calls |-> calls,
     instance_name |-> "None"]
RaisesOther(what, insts, calls) ==
    [exc |-> "other", error |-> NoneV, result |-> NoneV,
     instances |-> insts, calls |-> calls, instance_name |-> "None"]

ConfigKeys == {"vrid", "ip_addr", "version", "admin_state", "priority",
               "advertisement_interval", "preempt_mode", "preempt_delay",
               "statistics_interval"}

\* _config
config(params, insts) ==
    IF Len(params) = 0
    THEN RaisesRPCError("parameters are missing", "", insts, <<>>)
    ELSE IF params[1].kind # "map"
    THEN RaisesOther("AttributeError", insts, <<>>)
    ELSE
    LET param_dict == params[1].items
        if0 == params_to_dict(param_dict, {"ip_address", "ifname"})
    IN
    IF PopRaises(if0, "ip_address")
    THEN RaisesRPCError("ip_addr parameter is missing", "", insts, <<>>)
    ELSE IF PopRaises(if0, "ifname")
    THEN RaisesRPCError("ifname parameter is missing", "", insts, <<>>)
    ELSE
    LET if_params == ("primary_ip_address" :> DictGet(if0, "ip_address"))
                     @@ ("device_name" :> DictGet(if0, "ifname"))
                     @@ ("vlan_id" :> "None")
                     @@ ("mac_address" :> "DONTCARE")
        c0 == params_to_dict(param_dict, ConfigKeys)
    IN
    IF ~InterfaceValid(if_params)
    THEN RaisesRPCError("parameters are invalid", "param_dict", insts, <<>>)
    ELSE IF PopRaises(c0, "ip_addr")
    THEN RaisesRPCError("ip_addr parameter is missing", "", insts, <<>>)
    ELSE
    LET config_params == Without(c0, "ip_addr")
                         @@ ("ip_addresses" :> <<DictGet(c0, "ip_addr")>>)
    IN
    IF ~ConfigValid(config_params)
    THEN RaisesRPCError("parameters are invalid", "param_dict", insts, <<>>)
    ELSE
    LET config_result == api_vrrp_config(insts, if_params, config_params)
    IN Returns(List(<<config_result.config.vrid,
                      config_result.config.priority,
                      IPAddressStr(config_result.config.ip_addresses[1])>>),
               config_result.instances, <<"vrrp_config">>)

\* _lookup_instance: the name of the first instance with that vrid, or None.
lookup_instance(insts, vrid) ==
    LET hits == {i \in 1..Len(insts) : insts[i].vrid = vrid}
    IN IF hits = {} THEN "None"
       ELSE insts[CHOOSE i \in hits : \A j \in hits : i <= j].instance_name

\* _shutdown and _config_change up to their call of the manager: the first
\* parameter, its vrid, the lookup and the not-found error, whose message
\* is formatted with %d.
lookup_unchecked(params, insts) ==
    IF Len(params) = 0
    THEN RaisesRPCError("parameters are missing", "", insts, <<>>)
    ELSE IF params[1].kind # "map"
    THEN RaisesOther("AttributeError", insts, <<>>)
    ELSE [Returns(NoneV, insts, <<"vrrp_list">>) EXCEPT
             !.instance_name =
                 lookup_instance(insts, DictGet(params[1].items, "vrid"))]
lookup(params, insts) ==
    IF Len(params) = 0
    THEN RaisesRPCError("parameters are missing", "", insts, <<>>)
    ELSE IF params[1].kind # "map"
    THEN RaisesOther("AttributeError", insts, <<>>)
    ELSE
    LET config_values == params[1].items
        vrid == DictGet(config_values, "vrid")
        instance_name == lookup_instance(insts, vrid)
    IN
    IF instance_name = "None"
    THEN IF IsInt(vrid)
         THEN RaisesRPCError("vrid %d is not found", vrid, insts, <<"vrrp_list">>)
         ELSE RaisesOther("TypeError", insts, <<"vrrp_list">>)
    ELSE [Returns(NoneV, insts, <<"vrrp_list">>) EXCEPT
             !.instance_name = instance_name]

\* _shutdown after the lookup
shutdown(instance_name, insts) ==
    Returns(List(<<Dict(EmptyDict)>>),
            api_vrrp_shutdown(insts, instance_name), <<"vrrp_shutdown">>)

\* _config_change after the lookup
config_change(params, instance_name, insts) ==
    LET config_values == params[1].items
        priority == DictGet(config_values, "priority")
        interval == DictGet(config_values, "advertisement_interval")
    IN Returns(Dict(EmptyDict),
               api_vrrp_config_change(insts, instance_name, priority, interval),
               <<"vrrp_config_change">>)

\* _list
InfoDict(instance) ==
    [instance_name |-> instance.instance_name,
     vrid |-> instance.vrid,
     version |-> instance.version,
     advertisement_interval |-> instance.advertisement_interval,
     priority |-> instance.priority,
     virtual_ip_address |-> IPAddressStr(instance.ip_addresses[1])]
list_reversed(params, insts) ==
    Returns(List([i \in 1..Len(insts) |-> InfoDict(insts[Len(insts) + 1 - i])]),
            insts, <<"vrrp_list">>)
list(params, insts) ==
    Returns(List([i \in 1..Len(insts) |-> InfoDict(insts[i])]),
            insts, <<"vrrp_list">>)

\* -------------------------------------------------------------- Init
NoCmd == [peer |-> 0, seq |-> 0, msgid |-> 0, method |-> "", params |-> <<>>]
NoSent == [peer |-> 0, msgid |-> 0, error |-> NoneV, result |-> NoneV]
\* _rpc_request_loop_thread before its first get().
\* sent is the send_response call made for cmd, snap the manager's list
\* when cmd was taken from the queue.
FreshDisp == [pc |-> "get", cmd |-> NoCmd, error |-> NoneV, result |-> NoneV,
              instance_name |-> "None", sent |-> NoSent, snap |-> <<>>]
NoBcast == [status |-> "none", n |-> 0, ev |-> EventNo(1), idx |-> 0,
            at_start |-> <<>>, closed_at_start |-> {}, at_end |-> <<>>,
            calls |-> <<>>, prev |-> {}]

Init ==
    /\ peers = <<>>
    /\ pstate = [p \in PeerIds |-> "none"]
    /\ rpc_events = <<>>
    /\ nreq = 0
    /\ disp = [d \in Dispatchers |-> FreshDisp]
    /\ instances = <<>>
    /\ trace = <<>>
    /\ ev_queue = <<>>
    /\ nev = 0
    /\ bcast = NoBcast

\* ------------------------------------------------------------- peers
\* EndPoint.send_notification (ryu.lib.rpc) writes to the peer's socket,
\* where the hub may switch to another thread.
send_notification_switches == TRUE

\* Hub threads are cooperative: while the event handler is in its loop the
\* other threads run only if its send switches.
OtherThreadsRun == bcast.status = "active" => send_notification_switches

\* peer_accept_handler: a new Peer is appended to the list, then its loop
\* thread is spawned.  Peers are numbered in the order they are accepted.
peer_accept_handler(p) ==
    /\ OtherThreadsRun
    /\ pstate[p] = "none"
    /\ \A q \in PeerIds : q < p => pstate[q] # "none"
    /\ peers' = ListAppend(peers, p)
    /\ pstate' = [pstate EXCEPT ![p] = "spawned"]
    /\ UNCHANGED <<rpcVars, evVars>>

\* _peer_loop_thread starts: the endpoint serves the connection.
PeerLoopStart(p) ==
    /\ OtherThreadsRun
    /\ pstate[p] = "spawned"
    /\ pstate' = [pstate EXCEPT ![p] = "serving"]
    /\ UNCHANGED <<peers, rpcVars, evVars>>

\* _peer_loop_thread: serve() returns (the connection is closed) and the
\* thread removes the peer from the list, with no switch in between.
PeerLoopExit(p) ==
    /\ OtherThreadsRun
    /\ pstate[p] = "serving"
    /\ pstate' = [pstate EXCEPT ![p] = "closed"]
    /\ peers' = ListRemove(peers, p)
    /\ UNCHANGED <<rpcVars, evVars>>

\* The correlation id of a client's next request: a number none of its
\* requests in the queue or in the dispatcher's hands carries.
NextMsgId(p) ==
    1 + Cardinality({i \in 1..Len(rpc_events) : rpc_events[i].peer = p})
      + Cardinality({d \in Dispatchers : disp[d].cmd.peer = p})

\* Peer._handle_vrrp_request: the read loop puts (self, data) on the queue;
\* put blocks while the queue is full.
handle_vrrp_request(p, msgid, method, params) ==
    /\ OtherThreadsRun
    /\ pstate[p] = "serving"
    /\ Len(rpc_events) < QueueSize
    /\ nreq' = nreq + 1
    /\ rpc_events' = Append(rpc_events,
                            [peer |-> p, seq |-> nreq + 1, msgid |-> msgid,
                             method |-> method, params |-> params])
    /\ UNCHANGED <<peers, pstate, disp, instances, trace, evVars>>

\* Peers send without waiting for responses.
PeerRequest ==
    /\ nreq < MaxReq
    /\ \E p \in PeerIds, r \in FewRequests :
           handle_vrrp_request(p, NextMsgId(p), r.method, r.params)

\* A client sends its next request when it has the response to the last.
ClientCall ==
    /\ nreq < MaxCalls
    /\ rpc_events = <<>>
    /\ \A d \in Dispatchers : disp[d].pc = "get"
    /\ \E p \in PeerIds, r \in AllRequests :
           handle_vrrp_request(p, NextMsgId(p), r.method, r.params)

\* -------------------------------------------------------- dispatcher
\* Queue.get(): the oldest item.
QueueGetNewest(q) == [item |-> q[Len(q)], rest |-> SubSeq(q, 1, Len(q) - 1)]
QueueGet(q) == [item |-> Head(q), rest |-> Tail(q)]

\* What a call of the manager is about: the vrid of the configuration
\* given to vrrp_config, the instance name given to vrrp_shutdown and
\* vrrp_config_change.
CallArg(op, d) ==
    CASE op = "vrrp_config" -> DictGet(disp[d].cmd.params[1].items, "vrid")
      [] op \in {"vrrp_shutdown", "vrrp_config_change"} -> disp[d].instance_name
      [] OTHER -> "None"

Logged(calls, cmd, d) ==
    [i \in 1..Len(calls) |->
        [op |-> calls[i], seq |-> cmd.seq, by |-> d, arg |-> CallArg(calls[i], d)]]

\* The dispatcher after a handler step with outcome o: an RPCError becomes
\* the error of the response, any other exception ends the thread.
AfterHandler(d, o, next) ==
    [disp[d] EXCEPT
        !.pc = CASE o.exc = "none" -> next
                 [] o.exc = "RPCError" -> "respond"
                 [] OTHER -> "dead",
        !.error = o.error,
        !.result = o.result,
        !.instance_name = o.instance_name]

Handled(d, o, next) ==
    /\ OtherThreadsRun
    /\ disp' = [disp EXCEPT ![d] = AfterHandler(d, o, next)]
    /\ instances' = o.instances
    /\ trace' = trace \o Logged(o.calls, disp[d].cmd, d)
    /\ UNCHANGED <<peers, pstate, rpc_events, nreq, evVars>>

\* (peer, data) = self._rpc_events.get(); error = None; result = None
DispatchGet(d) ==
    /\ OtherThreadsRun
    /\ disp[d].pc = "get"
    /\ rpc_events # <<>>
    /\ LET g == QueueGet(rpc_events)
       IN /\ rpc_events' = g.rest
          /\ disp' = [disp EXCEPT ![d] =
                        [FreshDisp EXCEPT !.pc = "run", !.cmd = g.item,
                                          !.snap = instances]]
    /\ UNCHANGED <<peers, pstate, nreq, instances, trace, evVars>>

\* target_method == "vrrp_config": result = self._config(msgid, params)
RunConfig(d) ==
    /\ disp[d].pc = "run"
    /\ disp[d].cmd.method = "vrrp_config"
    /\ Handled(d, config(disp[d].cmd.params, instances), "respond")

\* target_method == "vrrp_list": result = self._list(msgid, params)
RunList(d) ==
    /\ disp[d].pc = "run"
    /\ disp[d].cmd.method = "vrrp_list"
    /\ Handled(d, list(disp[d].cmd.params, instances), "respond")

\* _config_change and _shutdown up to the manager's answer to the lookup
RunLookup(d) ==
    /\ disp[d].pc = "run"
    /\ disp[d].cmd.method \in {"vrrp_config_change", "vrrp_shutdown"}
    /\ Handled(d, lookup(disp[d].cmd.params, instances), "apply")

\* _shutdown: vrrp_api.vrrp_shutdown(self, instance_name); return [{}]
ApplyShutdown(d) ==
    /\ disp[d].pc = "apply"
    /\ disp[d].cmd.method = "vrrp_shutdown"
    /\ Handled(d, shutdown(disp[d].instance_name, instances), "respond")

\* _config_change: vrrp_api.vrrp_config_change(...); return {}
ApplyConfigChange(d) ==
    /\ disp[d].pc = "apply"
    /\ disp[d].cmd.method = "vrrp_config_change"
    /\ Handled(d, config_change(disp[d].cmd.params, disp[d].instance_name,
                                instances), "respond")

\* else: error = 'Unknown method %s' % (target_method)
RunUnknownSilent(d) ==
    /\ OtherThreadsRun
    /\ disp[d].pc = "run"
    /\ disp[d].cmd.method \notin {"vrrp_config", "vrrp_list",
                                  "vrrp_config_change", "vrrp_shutdown"}
    /\ disp' = [disp EXCEPT ![d].pc = "respond"]
    /\ UNCHANGED <<peers, pstate, rpc_events, nreq, instances, trace, evVars>>
RunUnknown(d) ==
    /\ OtherThreadsRun
    /\ disp[d].pc = "run"
    /\ disp[d].cmd.method \notin {"vrrp_config", "vrrp_list",
                                  "vrrp_config_change", "vrrp_shutdown"}
    /\ disp' = [disp EXCEPT ![d].pc = "respond",
                            ![d].error = Str([text |-> "Unknown method %s",
                                              arg |-> disp[d].cmd.method])]
    /\ UNCHANGED <<peers, pstate, rpc_events, nreq, instances, trace, evVars>>

\* EndPoint.send_response (ryu.lib.rpc): the call returns (TRUE), also on
\* a connection that has ended; a transport error stays in the endpoint.
send_response_outcomes == {TRUE}

\* peer._endpoint.send_response(msgid, error=error, result=result); the
\* loop goes back to get() with its local variables as they are.
RespondToFirstPeer(d) ==
    /\ OtherThreadsRun
    /\ disp[d].pc = "respond"
    /\ TRUE \in send_response_outcomes
    /\ trace' = trace \o Logged(<<"send_response">>, disp[d].cmd, d)
    /\ disp' = [disp EXCEPT ![d].pc = "get",
                            ![d].sent = [peer |-> 1,
                                         msgid |-> disp[d].cmd.msgid,
                                         error |-> disp[d].error,
                                         result |-> disp[d].result]]
    /\ UNCHANGED <<peers, pstate, rpc_events, nreq, instances, evVars>>
Respond(d) ==
    /\ OtherThreadsRun
    /\ disp[d].pc = "respond"
    /\ TRUE \in send_response_outcomes
    /\ trace' = trace \o Logged(<<"send_response">>, disp[d].cmd, d)
    /\ disp' = [disp EXCEPT ![d].pc = "get",
                            ![d].sent = [peer |-> disp[d].cmd.peer,
                                         msgid |-> disp[d].cmd.msgid,
                                         error |-> disp[d].error,
                                         result |-> disp[d].result]]
    /\ UNCHANGED <<peers, pstate, rpc_events, nreq, instances, evVars>>

Dispatcher(d) ==
    \/ DispatchGet(d)
    \/ RunConfig(d)
    \/ RunList(d)
    \/ RunLookup(d)
    \/ ApplyShutdown(d)
    \/ ApplyConfigChange(d)
    \/ RunUnknown(d)
    \/ Respond(d)

\* ------------------------------------------------------- broadcaster
\* The manager emits a state change: the event waits in the application's
\* event queue.
EmitEvent ==
    /\ OtherThreadsRun
    /\ nev < MaxEvents
    /\ nev' = nev + 1
    /\ ev_queue' = Append(ev_queue, [n |-> nev + 1, ev |-> EventNo(nev + 1)])
    /\ UNCHANGED <<peers, pstate, rpcVars, bcast>>

\* vrrp_state_changed_handler is entered: params is built and the for loop
\* starts at the head of self._peers.  bcast keeps, of the handler's last
\* run, the event, the loop's position, the peer list and the closed
\* connections when the run began, the list when it ended, the calls made
\* and how it ended, and the peers the run before it sent its event to.
\* The application's event loop calls the handler for one event at a time,
\* in the order the events were emitted.
Sent(calls) == {calls[i].peer : i \in {j \in 1..Len(calls) : calls[j].ok}}
HandlerStartNewest ==
    /\ bcast.status # "active"
    /\ ev_queue # <<>>
    /\ bcast' = [status |-> "active", n |-> ev_queue[Len(ev_queue)].n,
                 ev |-> ev_queue[Len(ev_queue)].ev, idx |-> 0,
                 at_start |-> peers,
                 closed_at_start |-> {p \in PeerIds : pstate[p] = "closed"},
                 at_end |-> <<>>, calls |-> <<>>, prev |-> Sent(bcast.calls)]
    /\ ev_queue' = SubSeq(ev_queue, 1, Len(ev_queue) - 1)
    /\ UNCHANGED <<peers, pstate, rpcVars, nev>>
HandlerStart ==
    /\ bcast.status # "active"
    /\ ev_queue # <<>>
    /\ bcast' = [status |-> "active", n |-> Head(ev_queue).n,
                 ev |-> Head(ev_queue).ev, idx |-> 0,
                 at_start |-> peers,
                 closed_at_start |-> {p \in PeerIds : pstate[p] = "closed"},
                 at_end |-> <<>>, calls |-> <<>>, prev |-> Sent(bcast.calls)]
    /\ ev_queue' = Tail(ev_queue)
    /\ UNCHANGED <<peers, pstate, rpcVars, nev>>

\* params = {'vrid': vrid, 'old_state': old_state, 'new_state': new_state}
NotifyParams(ev) ==
    [vrid |-> ev.vrid, old_state |-> ev.old_state, new_state |-> ev.new_state]

\* for peer in self._peers: the iterator reads the list as it is now, at
\* the position the loop has reached.
IterHasNext == bcast.idx < Len(peers)
IterNext == peers[bcast.idx + 1]

\* EndPoint.send_notification (ryu.lib.rpc): the call returns (TRUE) or
\* raises (FALSE).
send_notification_outcomes == {TRUE, FALSE}

Call(p, ok) ==
    [peer |-> p, method |-> "notify_status",
     params |-> <<NotifyParams(bcast.ev)>>, ok |-> ok]

\* One turn of the loop: send_notification to the next peer of the list.
\* The send may switch to other threads before it returns.
NotifyNext ==
    /\ bcast.status = "active"
    /\ IterHasNext
    /\ TRUE \in send_notification_outcomes
    /\ bcast' = [bcast EXCEPT !.idx = @ + 1,
                              !.calls = Append(@, Call(IterNext, TRUE))]
    /\ UNCHANGED <<peers, pstate, rpcVars, ev_queue, nev>>

\* One turn of the loop whose send_notification raises: the exception
\* leaves the loop and the handler.
NotifyFails ==
    /\ bcast.status = "active"
    /\ IterHasNext
    /\ FALSE \in send_notification_outcomes
    /\ bcast' = [bcast EXCEPT !.status = "failed",
                              !.calls = Append(@, Call(IterNext, FALSE)),
                              !.at_end = peers]
    /\ UNCHANGED <<peers, pstate, rpcVars, ev_queue, nev>>

\* The iterator is exhausted: the handler returns.
HandlerEnd ==
    /\ bcast.status = "active"
    /\ ~IterHasNext
    /\ bcast' = [bcast EXCEPT !.status = "done", !.at_end = peers]
    /\ UNCHANGED <<peers, pstate, rpcVars, ev_queue, nev>>

\* ---------------------------------------------------- specifications
PeerSteps ==
    \/ \E p \in PeerIds : peer_accept_handler(p)
    \/ \E p \in PeerIds : PeerLoopStart(p)
    \/ \E p \in PeerIds : PeerLoopExit(p)

Broadcaster ==
    \/ EmitEvent
    \/ HandlerStart
    \/ NotifyNext
    \/ NotifyFails
    \/ HandlerEnd

\* All threads together.  The claims are checked under the three
\* restrictions below, each with the threads its claims are about.
Next ==
    \/ PeerSteps
    \/ PeerRequest
    \/ ClientCall
    \/ \E d \in Dispatchers : Dispatcher(d)
    \/ Broadcaster
Spec == Init /\ [][Next]_vars

\* Peers that send concurrently, and the dispatcher.
ClientSteps ==
    \/ \E p \in 1..MaxClients : peer_accept_handler(p)
    \/ \E p \in 1..MaxClients : PeerLoopStart(p)
    \/ \E p \in 1..MaxClients : PeerLoopExit(p)

NextRpc ==
    \/ ClientSteps
    \/ PeerRequest
    \/ \E d \in Dispatchers : Dispatcher(d)
SpecRpc == Init /\ [][NextRpc]_vars

\* Clients that stay connected and wait for each response, every request
\* shape, and the dispatcher.
NextSeq ==
    \/ \E p \in 1..MaxClients : peer_accept_handler(p)
    \/ \E p \in 1..MaxClients : PeerLoopStart(p)
    \/ ClientCall
    \/ \E d \in Dispatchers : Dispatcher(d)
SpecSeq == Init /\ [][NextSeq]_vars

\* Peers that come and go, and the broadcaster.
NextNotify ==
    \/ PeerSteps
    \/ Broadcaster
SpecNotify == Init /\ [][NextNotify]_vars

\* ------------------------------------------------------------ claims
Alive == {d \in Dispatchers : disp[d].pc # "dead"}
Executing == {d \in Dispatchers : disp[d].pc \in {"run", "apply", "respond"}}
Responses(n) ==
    Cardinality({i \in 1..Len(trace) :
                    trace[i].op = "send_response" /\ trace[i].seq = n})
ManagerOps == {"vrrp_config", "vrrp_list", "vrrp_config_change", "vrrp_shutdown"}
\* The dispatcher has sent the response to the command it holds.
Answered(d) == disp[d].sent.peer # 0
IsNull(v) == v.t = "None"

\* C1: every request handed to the queue gets exactly one response: never
\* two, and never none with no dispatcher thread left to send it.
C1_ExactlyOneResponse ==
    \A n \in 1..nreq :
        /\ Responses(n) <= 1
        /\ Responses(n) = 0 => Alive # {}

\* C2: no failure of a handler ends the dispatcher thread: a command whose
\* handler has run is answered or about to be.
C2_HandlerFailureIsAnswered ==
    \A d \in Dispatchers :
        disp[d].cmd.method \in ManagerOps => disp[d].pc # "dead"

\* C3: at most one command is between its start and its response, and one
\* thread only makes the calls of the manager.
C3_OneCommandAtATime ==
    /\ Cardinality(Executing) <= 1
    /\ Cardinality({trace[i].by : i \in 1..Len(trace)}) <= 1
C3_Witness ==
    \E d \in Dispatchers :
        /\ disp[d].pc = "respond"
        /\ disp[d].cmd.method = "vrrp_config"
        /\ rpc_events # <<>>
        /\ rpc_events[1].peer # disp[d].cmd.peer

\* C4: commands are executed in the order they were put on the queue:
\* every call made for a command comes after the response to every command
\* put before it.
C4_QueueOrder ==
    \A j \in 1..Len(trace) :
        \A n \in 1..(trace[j].seq - 1) :
            \E i \in 1..(j - 1) :
                trace[i].op = "send_response" /\ trace[i].seq = n
C4_Witness ==
    /\ nreq = 2
    /\ trace # <<>>
    /\ trace[Len(trace)].seq = 2
    /\ trace[Len(trace)].op = "vrrp_shutdown"
    /\ \E d \in Dispatchers : disp[d].cmd.peer = 2
    /\ \E i \in 1..Len(trace) : trace[i].seq = 1 /\ trace[i].op = "vrrp_config"

\* C5: the queue never holds more than 128 commands and every command put
\* on it is taken off: none waits with no dispatcher thread left to take it.
C5_BoundedAndDrained ==
    /\ Len(rpc_events) <= QueueSize
    /\ rpc_events # <<>> => Alive # {}
    /\ \A i, j \in 1..Len(rpc_events) : i < j => rpc_events[i].seq < rpc_events[j].seq

\* C6: a state change handled after a peer's connection was closed is sent
\* to every peer connected throughout the handling, and not to the closed
\* peer (stated for the runs of the handler in which no send raised).
C6_NotifyRemainingPeers ==
    (bcast.status = "done" /\ bcast.closed_at_start # {}) =>
        /\ \A i \in 1..Len(bcast.calls) :
               bcast.calls[i].peer \notin bcast.closed_at_start
        /\ \A q \in Range(bcast.at_start) \cap Range(bcast.at_end) :
               \E i \in 1..Len(bcast.calls) : bcast.calls[i].peer = q

\* C7: when send_notification raises for one peer, every other peer of the
\* peer list is still sent the event.
C7_SendFailureSparesOthers ==
    bcast.status = "failed" =>
        \A q \in Range(bcast.at_start) \cap Range(bcast.at_end) :
            \E i \in 1..Len(bcast.calls) : bcast.calls[i].peer = q

\* C8: the peer list holds no peer twice, and holds exactly the accepted
\* peers whose connection has not ended.
C8_PeerSet ==
    /\ \A i, j \in 1..Len(peers) : i # j => peers[i] # peers[j]
    /\ Range(peers) = {p \in PeerIds : pstate[p] \in {"spawned", "serving"}}
C8_Witness ==
    /\ \E p \in PeerIds : pstate[p] = "closed"
    /\ \E p \in PeerIds : pstate[p] = "serving"
    /\ \E p \in PeerIds : pstate[p] = "spawned"

\* C9: a vrrp_config request with no first parameter, or whose parameter
\* object lacks ip_address, ifname or ip_addr, is answered with an error
\* and no result, and vrrp_api.vrrp_config is not called for it.
LacksRequired(params) ==
    \/ Len(params) = 0
    \/ /\ params[1].kind = "map"
       /\ ~({"ip_address", "ifname", "ip_addr"} \subseteq DOMAIN params[1].items)
C9_MissingParameters ==
    \A d \in Dispatchers :
        (disp[d].cmd.method = "vrrp_config" /\ LacksRequired(disp[d].cmd.params)) =>
            /\ disp[d].pc \in {"run", "respond", "get"}
            /\ \A i \in 1..Len(trace) :
                   trace[i].seq = disp[d].cmd.seq => trace[i].op = "send_response"
            /\ Answered(d) =>
                   /\ ~IsNull(disp[d].sent.error)
                   /\ IsNull(disp[d].sent.result)
            /\ disp[d].pc = "get" => Answered(d)
C9_Witness ==
    \E d \in Dispatchers :
        /\ disp[d].cmd.method = "vrrp_config"
        /\ Len(disp[d].cmd.params) = 1
        /\ disp[d].cmd.params[1].kind = "map"
        /\ "ip_addr" \notin DOMAIN disp[d].cmd.params[1].items
        /\ "ifname" \in DOMAIN disp[d].cmd.params[1].items
        /\ Answered(d)
        /\ disp[d].sent.error.msg.text = "ip_addr parameter is missing"

\* C10: vrrp_config_change and vrrp_shutdown with an integer vrid that no
\* live instance has are answered "vrid <id> is not found" with no result;
\* the instance list stays as it was and neither vrrp_config_change nor
\* vrrp_shutdown of the manager is called.
UnknownVrid(d) ==
    /\ disp[d].cmd.method \in {"vrrp_config_change", "vrrp_shutdown"}
    /\ Len(disp[d].cmd.params) = 1
    /\ disp[d].cmd.params[1].kind = "map"
    /\ IsInt(DictGet(disp[d].cmd.params[1].items, "vrid"))
    /\ \A i \in 1..Len(disp[d].snap) :
           disp[d].snap[i].vrid # DictGet(disp[d].cmd.params[1].items, "vrid")
C10_VridNotFound ==
    \A d \in Dispatchers :
        UnknownVrid(d) =>
            /\ disp[d].pc \in {"run", "respond", "get"}
            /\ instances = disp[d].snap
            /\ \A i \in 1..Len(trace) :
                   trace[i].seq = disp[d].cmd.seq =>
                       trace[i].op \in {"vrrp_list", "send_response"}
            /\ Answered(d) =>
                   /\ disp[d].sent.error =
                          Str([text |-> "vrid %d is not found",
                               arg |-> DictGet(disp[d].cmd.params[1].items, "vrid")])
                   /\ IsNull(disp[d].sent.result)
            /\ disp[d].pc = "get" => Answered(d)
C10_Witness ==
    \E d \in Dispatchers :
        /\ UnknownVrid(d)
        /\ disp[d].cmd.method = "vrrp_shutdown"
        /\ disp[d].snap # <<>>
        /\ Answered(d)

\* The dotted form of the addresses the requests carry.
DottedForm == ("10.0.0.100" :> "10.0.0.100") @@ ("167772260" :> "10.0.0.100")

\* A vrrp_config request the manager accepts: one parameter object with the
\* interface's address and name, an integer vrid and a virtual address.
ValidConfig(cmd) ==
    /\ cmd.method = "vrrp_config"
    /\ Len(cmd.params) = 1
    /\ cmd.params[1].kind = "map"
    /\ {"ip_address", "ifname", "vrid", "ip_addr"} \subseteq DOMAIN cmd.params[1].items
    /\ IsInt(cmd.params[1].items["vrid"])
    /\ cmd.params[1].items["ip_addr"] \in DOMAIN DottedForm

\* C11: a valid vrrp_config request with vrid V and virtual address A is
\* answered with no error and a list of three elements: V, the priority of
\* the instance in the manager (the request's own if it gave one), and the
\* dotted form of A.
C11_ConfigResult ==
    \A d \in Dispatchers :
        ValidConfig(disp[d].cmd) =>
            LET it == disp[d].cmd.params[1].items
                r == disp[d].sent.result
            IN /\ disp[d].pc \in {"run", "respond", "get"}
               /\ disp[d].pc = "get" => Answered(d)
               /\ Answered(d) =>
                      /\ IsNull(disp[d].sent.error)
                      /\ r.t = "list"
                      /\ Len(r.elems) = 3
                      /\ r.elems[1] = it["vrid"]
                      /\ "priority" \in DOMAIN it => r.elems[2] = it["priority"]
                      /\ \E i \in 1..Len(instances) :
                             /\ instances[i].vrid = it["vrid"]
                             /\ instances[i].priority = r.elems[2]
                      /\ r.elems[3] = DottedForm[it["ip_addr"]]
C11_Witness ==
    \E d \in Dispatchers :
        /\ ValidConfig(disp[d].cmd)
        /\ disp[d].cmd.params[1].items["ip_addr"] = "167772260"
        /\ Answered(d)
        /\ disp[d].sent.result.elems[3] = "10.0.0.100"
        /\ disp[d].snap # <<>>

\* The calls of the manager made so far: the vrids configured, the
\* instances shut down and not configured again.
CallsOf(op) == {i \in 1..Len(trace) : trace[i].op = op}
ConfiguredVrids == {trace[i].arg : i \in CallsOf("vrrp_config")}
ShutDownVrids ==
    {trace[i].arg[3] : i \in {j \in CallsOf("vrrp_shutdown") :
        \A k \in CallsOf("vrrp_config") : k > j => trace[k].arg # trace[j].arg[3]}}

\* C12: vrrp_list is answered with no error and one record per instance of
\* the manager, in the manager's order, each with the instance's name, vrid
\* and dotted primary address; after successful vrrp_config calls for N
\* different vrids and no shutdown it has N records, after a vrrp_shutdown
\* of a vrid it has no record of that vrid; vrrp_list calls nothing but the
\* manager's vrrp_list and leaves the instance list as it was.
C12_ListRecords ==
    \A d \in Dispatchers :
        disp[d].cmd.method = "vrrp_list" =>
            LET r == disp[d].sent.result
                snap == disp[d].snap
            IN /\ disp[d].pc \in {"run", "respond", "get"}
               /\ disp[d].pc = "get" => Answered(d)
               /\ instances = snap
               /\ \A i \in 1..Len(trace) :
                      trace[i].seq = disp[d].cmd.seq =>
                          trace[i].op \in {"vrrp_list", "send_response"}
               /\ Answered(d) =>
                      /\ IsNull(disp[d].sent.error)
                      /\ r.t = "list"
                      /\ Len(r.elems) = Len(snap)
                      /\ \A i \in 1..Len(snap) :
                             /\ r.elems[i].instance_name = snap[i].instance_name
                             /\ r.elems[i].vrid = snap[i].vrid
                             /\ r.elems[i].virtual_ip_address =
                                    DottedForm[snap[i].ip_addresses[1]]
                      /\ CallsOf("vrrp_shutdown") = {} =>
                             Len(r.elems) = Cardinality(ConfiguredVrids)
                      /\ \A i \in 1..Len(r.elems) :
                             r.elems[i].vrid \notin ShutDownVrids
C12_Witness ==
    \E d \in Dispatchers :
        /\ disp[d].cmd.method = "vrrp_list"
        /\ Answered(d)
        /\ Len(disp[d].sent.result.elems) = 2
        /\ disp[d].sent.result.elems[1].vrid = "2"
        /\ disp[d].sent.result.elems[2].vrid = "1"
        /\ disp[d].sent.result.elems[1].virtual_ip_address = "10.0.0.100"

\* C13: a request whose method is none of vrrp_config, vrrp_list,
\* vrrp_config_change, vrrp_shutdown is answered with the error
\* "Unknown method <name>" and no result; no call of the manager is made
\* for it, the instance list stays as it was, and the dispatcher thread is
\* back at the queue after the response.
UnknownMethod(d) == disp[d].cmd.seq # 0 /\ disp[d].cmd.method \notin ManagerOps
C13_UnknownMethod ==
    \A d \in Dispatchers :
        UnknownMethod(d) =>
            /\ disp[d].pc \in {"run", "respond", "get"}
            /\ disp[d].pc = "get" <=> Answered(d)
            /\ instances = disp[d].snap
            /\ \A i \in 1..Len(trace) :
                   trace[i].seq = disp[d].cmd.seq => trace[i].op = "send_response"
            /\ Answered(d) =>
                   /\ disp[d].sent.error =
                          Str([text |-> "Unknown method %s", arg |-> disp[d].cmd.method])
                   /\ IsNull(disp[d].sent.result)
C13_Witness ==
    \E d \in Dispatchers :
        /\ UnknownMethod(d)
        /\ Answered(d)
        /\ rpc_events # <<>>
        /\ rpc_events[1].peer # disp[d].cmd.peer

\* C14: the end of a connection leaves the queue and the dispatcher as they
\* are: the commands put after the one the dispatcher holds are all in the
\* queue, whoever sent them, and the dispatcher thread does not end on a
\* command whose peer has disconnected, so the commands of the other peers
\* are still answered.
LastTaken ==
    CHOOSE n \in 0..nreq :
        /\ \A d \in Dispatchers : disp[d].cmd.seq <= n
        /\ \E d \in Dispatchers : disp[d].cmd.seq = n
C14_DisconnectIsolated ==
    /\ {rpc_events[i].seq : i \in 1..Len(rpc_events)} = (LastTaken + 1)..nreq
    /\ \A d \in Dispatchers :
           (/\ disp[d].cmd.peer # 0
            /\ pstate[disp[d].cmd.peer] = "closed"
            /\ \E i \in 1..Len(rpc_events) :
                   /\ rpc_events[i].peer # disp[d].cmd.peer
                   /\ pstate[rpc_events[i].peer] = "serving")
           => disp[d].pc # "dead"

\* A result payload with no elements: an empty list or an empty object.
IsEmptyResult(v) ==
    \/ v.t = "list" /\ v.elems = <<>>
    \/ v.t = "dict" /\ DOMAIN v.items = {}

\* C15: a vrrp_shutdown or vrrp_config_change answered with no error is
\* answered with an empty result, after the manager's vrrp_shutdown
\* (vrrp_config_change) was called for the instance of the request's vrid.
C15_EmptyResults ==
    \A d \in Dispatchers :
        (/\ disp[d].cmd.method \in {"vrrp_shutdown", "vrrp_config_change"}
         /\ Answered(d)
         /\ IsNull(disp[d].sent.error))
        => /\ IsEmptyResult(disp[d].sent.result)
           /\ \E i \in 1..Len(trace) :
                  /\ trace[i].seq = disp[d].cmd.seq
                  /\ trace[i].op = disp[d].cmd.method
                  /\ trace[i].arg =
                         lookup_instance(disp[d].snap,
                                         DictGet(disp[d].cmd.params[1].items, "vrid"))

\* The send_notification calls the handler's run made on peer p.
CallsTo(p) == {i \in 1..Len(bcast.calls) : bcast.calls[i].peer = p}

\* C16: whatever accepts and disconnects happen while the handler is in
\* its loop, no peer is sent the event twice, and when the loop has ended
\* with no send raising, every peer that was in the list from the start of
\* the run to its end has been sent the event exactly once.
C16_BroadcastSafe ==
    /\ \A p \in PeerIds : Cardinality(CallsTo(p)) <= 1
    /\ bcast.status = "done" =>
           \A q \in Range(bcast.at_start) \cap Range(bcast.at_end) :
               Cardinality(CallsTo(q)) = 1

\* C17: the response to a command taken from the queue is sent on the
\* endpoint of the peer that put it, with the msgid of its request, and
\* with an error or a result but not both; before the response nothing has
\* been sent for the command.
C17_ResponseToOriginator ==
    \A d \in Dispatchers :
        /\ Answered(d) =>
               /\ disp[d].sent.peer = disp[d].cmd.peer
               /\ disp[d].sent.msgid = disp[d].cmd.msgid
               /\ IsNull(disp[d].sent.error) \/ IsNull(disp[d].sent.result)
               /\ Responses(disp[d].cmd.seq) = 1
        /\ (disp[d].cmd.seq # 0 /\ ~Answered(d)) => Responses(disp[d].cmd.seq) = 0
        /\ IsNull(disp[d].error) \/ IsNull(disp[d].result)
C17_Witness ==
    \E d \in Dispatchers :
        /\ Answered(d)
        /\ disp[d].cmd.peer = 2
        /\ ~IsNull(disp[d].sent.error)
        /\ pstate[1] = "serving"
        /\ rpc_events # <<>>
        /\ rpc_events[1].peer = 1
        /\ rpc_events[1].msgid = disp[d].cmd.msgid

\* C18: a vrrp_config_change or vrrp_shutdown whose first parameter object
\* has no vrid key is answered with an error and no result, the manager's
\* vrrp_config_change and vrrp_shutdown are not called for it, and the
\* dispatcher thread is back at the queue after the response.
LacksVrid(d) ==
    /\ disp[d].cmd.method \in {"vrrp_config_change", "vrrp_shutdown"}
    /\ Len(disp[d].cmd.params) = 1
    /\ disp[d].cmd.params[1].kind = "map"
    /\ "vrid" \notin DOMAIN disp[d].cmd.params[1].items
C18_VridRequired ==
    \A d \in Dispatchers :
        LacksVrid(d) =>
            /\ disp[d].pc \in {"run", "respond", "get"}
            /\ disp[d].pc = "get" => Answered(d)
            /\ \A i \in 1..Len(trace) :
                   trace[i].seq = disp[d].cmd.seq =>
                       trace[i].op \in {"vrrp_list", "send_response"}
            /\ Answered(d) =>
                   /\ ~IsNull(disp[d].sent.error)
                   /\ IsNull(disp[d].sent.result)

\* C19: the handler's runs follow the order the events were emitted in and
\* do not overlap: a run begins when the run for the event before it has
\* ended, so a peer sent both events is sent the earlier one first; within
\* a run calls are only added, no peer is called twice, and every call
\* carries vrid, old_state and new_state of the run's event and nothing
\* else.
IsPrefix(s, t) == Len(s) <= Len(t) /\ SubSeq(t, 1, Len(s)) = s
PayloadOfRun ==
    \A i \in 1..Len(bcast.calls) :
        /\ bcast.calls[i].method = "notify_status"
        /\ Len(bcast.calls[i].params) = 1
        /\ DOMAIN bcast.calls[i].params[1] = {"vrid", "old_state", "new_state"}
        /\ bcast.calls[i].params[1].vrid = EventNo(bcast.n).vrid
        /\ bcast.calls[i].params[1].old_state = EventNo(bcast.n).old_state
        /\ bcast.calls[i].params[1].new_state = EventNo(bcast.n).new_state
RunsInOrder ==
    /\ bcast'.n # bcast.n =>
           /\ bcast'.n = bcast.n + 1
           /\ bcast.status # "active"
           /\ bcast'.calls = <<>>
           /\ bcast'.prev = Sent(bcast.calls)
    /\ bcast'.n = bcast.n =>
           /\ IsPrefix(bcast.calls, bcast'.calls)
           /\ bcast'.prev = bcast.prev
Occurrences(s, x) == Cardinality({i \in 1..Len(s) : s[i] = x})
Accepted(p) ==
    /\ pstate[p] = "none"
    /\ pstate'[p] = "spawned"
    /\ peers' = Append(peers, p)
Removed(p) ==
    /\ pstate[p] = "serving"
    /\ pstate'[p] = "closed"
    /\ Occurrences(peers, p) = 1
    /\ Occurrences(peers', p) = 0
    /\ Len(peers') = Len(peers) - 1
    /\ \A q \in PeerIds \ {p} : Occurrences(peers', q) = Occurrences(peers, q)
PeerListSteps ==
    /\ peers' # peers => \E p \in PeerIds : Accepted(p) \/ Removed(p)
    /\ (\/ \E d \in Dispatchers : disp'[d].pc # disp[d].pc
        \/ Len(trace') # Len(trace)
        \/ bcast' # bcast
        \/ ev_queue' # ev_queue) => peers' = peers
    /\ \A p \in PeerIds :
           /\ pstate[p] = "closed" => pstate'[p] = "closed"
           /\ pstate'[p] # pstate[p] =>
                  <<pstate[p], pstate'[p]>> \in {<<"none", "spawned">>,
                                                <<"spawned", "serving">>,
                                                <<"serving", "closed">>}
           /\ (pstate[p] = "serving" /\ pstate'[p] = "closed") => Removed(p)
C20_PeerListDiscipline ==
    /\ [](\A p \in PeerIds :
             /\ pstate[p] \in {"spawned", "serving"} => Occurrences(peers, p) = 1
             /\ pstate[p] \in {"none", "closed"} => Occurrences(peers, p) = 0)
    /\ [][PeerListSteps]_vars
C20_Witness ==
    /\ bcast.status = "active"
    /\ bcast.idx > 0
    /\ \E p \in PeerIds : pstate[p] = "closed" /\ p \in Range(bcast.at_start)
    /\ \E p \in PeerIds : pstate[p] = "spawned" /\ p \notin Range(bcast.at_start)
====
